---- MODULE Spec2Model ----
(***************************************************************************)
(* Model of decode_genome.py: GenomeDecoder.parse_genome_file,             *)
(* generate_summary and analyze_specific_snps, run in the order of main().  *)
(*                                                                         *)
(* Text is modelled at the character level: a Python str is a sequence of   *)
(* one-character strings, so that strip, startswith, split, isdigit, int    *)
(* and the "," format are computed rather than assumed.  The character      *)
(* "sup2" stands for U+00B2 (SUPERSCRIPT TWO), for which str.isdigit() is   *)
(* True and int() raises ValueError.                                        *)
(***************************************************************************)
EXTENDS Integers, Sequences, FiniteSets, TLC

VARIABLES pc, nread, line, outcome, snps, chromosome_counts, genotype_counts,
          total_snps, no_calls, sorted_chromosomes, homozygous, heterozygous,
          out, err

vars == <<pc, nread, line, outcome, snps, chromosome_counts, genotype_counts,
          total_snps, no_calls, sorted_chromosomes, homozygous, heterozygous,
          out, err>>

\* Number of lines the modelled input file holds at most.
MaxLines == 3

-----------------------------------------------------------------------------
(* Characters and Python str methods *)

Tab == "\t"
NL == "\n"

AsciiDigits == {"0", "1", "2", "3", "4", "5", "6", "7", "8", "9"}

\* Code point of a character (Python compares str by code point).
Ord(c) ==
  CASE c = "\t" -> 9   [] c = "\n" -> 10  [] c = " " -> 32  [] c = "#" -> 35
    [] c = "," -> 44   [] c = "-" -> 45
    [] c = "0" -> 48   [] c = "1" -> 49   [] c = "2" -> 50  [] c = "3" -> 51
    [] c = "4" -> 52   [] c = "5" -> 53   [] c = "6" -> 54  [] c = "7" -> 55
    [] c = "8" -> 56   [] c = "9" -> 57
    [] c = "A" -> 65   [] c = "C" -> 67   [] c = "G" -> 71  [] c = "M" -> 77
    [] c = "T" -> 84   [] c = "U" -> 85   [] c = "X" -> 88  [] c = "Y" -> 89
    [] c = "_" -> 95
    [] c = "c" -> 99   [] c = "d" -> 100  [] c = "e" -> 101 [] c = "g" -> 103
    [] c = "h" -> 104  [] c = "i" -> 105  [] c = "l" -> 108 [] c = "m" -> 109
    [] c = "n" -> 110  [] c = "o" -> 111  [] c = "p" -> 112 [] c = "r" -> 114
    [] c = "s" -> 115  [] c = "t" -> 116  [] c = "x" -> 120 [] c = "y" -> 121
    [] c = "sup2" -> 178

\* str.isspace() of one character.
IsSpace(c) == c \in {" ", "\t", "\n"}

RECURSIVE LStrip(_)
LStrip(s) == IF s # <<>> /\ IsSpace(Head(s)) THEN LStrip(Tail(s)) ELSE s

RECURSIVE RStrip(_)
RStrip(s) ==
  IF s # <<>> /\ IsSpace(s[Len(s)]) THEN RStrip(SubSeq(s, 1, Len(s) - 1)) ELSE s

\* str.strip()
Strip(s) == RStrip(LStrip(s))

\* str.startswith(prefix)
StartsWith(s, prefix) ==
  Len(s) >= Len(prefix) /\ SubSeq(s, 1, Len(prefix)) = prefix

\* str.split(sep) for a one-character sep: empty fields are kept.
RECURSIVE SplitFrom(_, _, _)
SplitFrom(s, sep, cur) ==
  IF s = <<>> THEN <<cur>>
  ELSE IF Head(s) = sep THEN <<cur>> \o SplitFrom(Tail(s), sep, <<>>)
  ELSE SplitFrom(Tail(s), sep, Append(cur, Head(s)))

Split(s, sep) == SplitFrom(s, sep, <<>>)

\* str.isdigit(): non-empty and every character is a digit character.
IsDigit(s) == s # <<>> /\ \A i \in 1..Len(s) : s[i] \in AsciiDigits \cup {"sup2"}

\* int(s) raises ValueError unless every character is a decimal digit.
IntRaises(s) == s = <<>> \/ \E i \in 1..Len(s) : s[i] \notin AsciiDigits

DigitVal(c) == Ord(c) - Ord("0")

RECURSIVE IntOf(_)
IntOf(s) == IF s = <<>> THEN 0 ELSE 10 * IntOf(SubSeq(s, 1, Len(s) - 1)) + DigitVal(s[Len(s)])

DigitChar(d) == CHOOSE c \in AsciiDigits : DigitVal(c) = d

\* str(n) for n >= 0
RECURSIVE StrOfInt(_)
StrOfInt(n) ==
  IF n < 10 THEN <<DigitChar(n)>> ELSE Append(StrOfInt(n \div 10), DigitChar(n % 10))

\* format(n, ",") for n >= 0: a comma before every group of three digits.
RECURSIVE GroupThousands(_)
GroupThousands(d) ==
  IF Len(d) <= 3 THEN d
  ELSE GroupThousands(SubSeq(d, 1, Len(d) - 3)) \o <<",">> \o SubSeq(d, Len(d) - 2, Len(d))

FormatComma(n) == GroupThousands(StrOfInt(n))

\* s < t for str: lexicographic by code point.
RECURSIVE StrLess(_, _)
StrLess(s, t) ==
  IF t = <<>> THEN FALSE
  ELSE IF s = <<>> THEN TRUE
  ELSE IF Head(s) # Head(t) THEN Ord(Head(s)) < Ord(Head(t))
  ELSE StrLess(Tail(s), Tail(t))

-----------------------------------------------------------------------------
(* Python dict / defaultdict / Counter: <<key, value>> pairs in insertion order *)

Keys(d) == [i \in 1..Len(d) |-> d[i][1]]

Has(d, k) == \E i \in 1..Len(d) : d[i][1] = k

Get(d, k) == d[CHOOSE i \in 1..Len(d) : d[i][1] = k][2]

\* d[k] = v: an existing key keeps its place, a new key goes last.
Put(d, k, v) ==
  IF Has(d, k) THEN [i \in 1..Len(d) |-> IF d[i][1] = k THEN <<k, v>> ELSE d[i]]
  ELSE Append(d, <<k, v>>)

IncrementReset(d, k) == Put(d, k, 1)

\* d[k] += 1 on a defaultdict(int) or Counter: a missing key counts from 0.
Increment(d, k) == Put(d, k, (IF Has(d, k) THEN Get(d, k) ELSE 0) + 1)

RECURSIVE SumValues(_)
SumValues(d) == IF d = <<>> THEN 0 ELSE d[1][2] + SumValues(Tail(d))

-----------------------------------------------------------------------------
(* The input file: every line is one of InputLines *)

S_rsid == <<"r", "s", "i", "d">>
S_rsid123 == <<"r", "s", "i", "d", "1", "2", "3">>
S_rs1 == <<"r", "s", "1">>
S_rs429358 == <<"r", "s", "4", "2", "9", "3", "5", "8">>
S_rs7412 == <<"r", "s", "7", "4", "1", "2">>
S_rs4680 == <<"r", "s", "4", "6", "8", "0">>
S_rs1815739 == <<"r", "s", "1", "8", "1", "5", "7", "3", "9">>
S_rs1800497 == <<"r", "s", "1", "8", "0", "0", "4", "9", "7">>
S_rs1799971 == <<"r", "s", "1", "7", "9", "9", "9", "7", "1">>
S_rs9939609 == <<"r", "s", "9", "9", "3", "9", "6", "0", "9">>
S_rs7903146 == <<"r", "s", "7", "9", "0", "3", "1", "4", "6">>
S_chromosome == <<"c", "h", "r", "o", "m", "o", "s", "o", "m", "e">>
S_position == <<"p", "o", "s", "i", "t", "i", "o", "n">>
S_genotype == <<"g", "e", "n", "o", "t", "y", "p", "e">>
S_12345 == <<"1", "2", "3", "4", "5">>
S_100 == <<"1", "0", "0">>
S_Un == <<"U", "n", "_", "g", "l", "0", "0", "0", "2", "1", "1">>
NoCall == <<"-", "-">>
AA == <<"A", "A">>
AG == <<"A", "G">>
AT == <<"A", "T">>
CC == <<"C", "C">>
CT == <<"C", "T">>
GG == <<"G", "G">>
TT == <<"T", "T">>

\* A line of the file: fields joined by tabs, ended by a newline.
RECURSIVE JoinTabs(_)
JoinTabs(fields) ==
  IF Len(fields) = 1 THEN fields[1] ELSE fields[1] \o <<Tab>> \o JoinTabs(Tail(fields))

Row(fields) == JoinTabs(fields) \o <<NL>>

SkippedLines ==
  { <<NL>>,
    <<" ", NL>>,
    <<"#", " ", "x", NL>>,
    Row(<<S_rsid, S_chromosome, S_position, S_genotype>>),
    Row(<<S_rsid123, <<"1">>, S_100, AA>>) }

MalformedLines ==
  { Row(<<S_rs1, <<"1">>, S_100>>),
    Row(<<S_rs1, <<"1">>, S_100, AA, <<"x">>>>),
    Row(<<S_rs1, <<"1">>, S_100, <<>>>>),
    <<"x", NL>> }

ApoeLines ==
  { Row(<<r, <<"1", "9">>, S_12345, g>>) : r \in {S_rs429358, S_rs7412}, g \in {TT, CT, CC} }

NotableLines ==
  { Row(<<S_rs4680, <<"2", "2">>, S_12345, AG>>),
    Row(<<S_rs4680, <<"2", "2">>, S_12345, CT>>),
    Row(<<S_rs4680, <<"2", "2">>, S_Un, AG>>),
    Row(<<S_rs9939609, <<"1", "6">>, S_100, TT>>) }

PlainLines ==
  { Row(<<S_rs1, <<"2">>, S_100, NoCall>>),
    Row(<<S_rs1, <<"1", "0">>, S_100, <<"A">>>>),
    Row(<<S_rs1, <<"X">>, S_100, AA>>),
    Row(<<S_rs1, <<"Y">>, S_100, AG>>),
    Row(<<S_rs1, <<"M", "T">>, S_100, AA>>),
    Row(<<S_rs1, <<"1", "5", "0">>, S_100, AA>>),
    Row(<<S_rs1, <<"sup2">>, S_100, AA>>),
    JoinTabs(<<S_rs1, <<"1">>, <<"sup2">>, AA>>) }

InputLines == SkippedLines \cup MalformedLines \cup ApoeLines \cup NotableLines \cup PlainLines

-----------------------------------------------------------------------------
(* parse_genome_file *)

NoError == [type |-> "none", line |-> 0, in |-> "none"]

IsBlankOrComment(stripped) == StartsWith(stripped, <<"#">>) \/ stripped = <<>>

IsHeader(stripped) == StartsWith(stripped, S_rsid)

FieldCountAtLeast(parts) == Len(parts) >= 4

FieldCountOk(parts) == Len(parts) = 4

\* int(position) if position.isdigit() else position
ParsePosition(position) ==
  IF IsDigit(position) THEN [isInt |-> TRUE, int |-> IntOf(position), str |-> <<>>]
  ELSE [isInt |-> FALSE, int |-> 0, str |-> position]

PositionRaises(position) == IsDigit(position) /\ IntRaises(position)

MakeRecord(parts) ==
  [rsid |-> parts[1], chromosome |-> parts[2],
   position |-> ParsePosition(parts[3]), genotype |-> parts[4]]

IsNoCallTypo(genotype) == genotype = <<"-">>

IsNoCall(genotype) == genotype = NoCall

Init ==
  /\ pc = "parse"
  /\ nread = 0
  /\ line = <<>>
  /\ outcome = "none"
  /\ snps = <<>>
  /\ chromosome_counts = <<>>
  /\ genotype_counts = <<>>
  /\ total_snps = 0
  /\ no_calls = 0
  /\ sorted_chromosomes = <<>>
  /\ homozygous = 0
  /\ heterozygous = 0
  /\ out = <<>>
  /\ err = NoError

ReadLine(l) ==
  /\ pc = "parse"
  /\ nread < MaxLines
  /\ nread' = nread + 1
  /\ line' = l

ReportUnchanged == UNCHANGED <<sorted_chromosomes, homozygous, heterozygous, out>>

CountersUnchanged ==
  UNCHANGED <<snps, chromosome_counts, genotype_counts, total_snps, no_calls>>

SkipBlankOrComment ==
  \E l \in InputLines :
    /\ ReadLine(l)
    /\ IsBlankOrComment(Strip(l))
    /\ outcome' = "skipped"
    /\ UNCHANGED <<pc, err>>
    /\ CountersUnchanged /\ ReportUnchanged

SkipHeader ==
  \E l \in InputLines :
    /\ ReadLine(l)
    /\ ~IsBlankOrComment(Strip(l))
    /\ IsHeader(Strip(l))
    /\ outcome' = "header"
    /\ UNCHANGED <<pc, err>>
    /\ CountersUnchanged /\ ReportUnchanged

DiscardLine ==
  \E l \in InputLines :
    /\ ReadLine(l)
    /\ ~IsBlankOrComment(Strip(l))
    /\ ~IsHeader(Strip(l))
    /\ ~FieldCountOk(Split(Strip(l), Tab))
    /\ outcome' = "discarded"
    /\ UNCHANGED <<pc, err>>
    /\ CountersUnchanged /\ ReportUnchanged

AppendRecord ==
  \E l \in InputLines :
    LET parts == Split(Strip(l), Tab) IN
    /\ ReadLine(l)
    /\ ~IsBlankOrComment(Strip(l))
    /\ ~IsHeader(Strip(l))
    /\ FieldCountOk(parts)
    /\ ~PositionRaises(parts[3])
    /\ snps' = Append(snps, MakeRecord(parts))
    /\ chromosome_counts' = Increment(chromosome_counts, parts[2])
    /\ genotype_counts' = Increment(genotype_counts, parts[4])
    /\ total_snps' = total_snps + 1
    /\ no_calls' = IF IsNoCall(parts[4]) THEN no_calls + 1 ELSE no_calls
    /\ outcome' = "record"
    /\ UNCHANGED <<pc, err>>
    /\ ReportUnchanged

\* int(position) raises while the record is being built: nothing was appended.
ParseRaises ==
  \E l \in InputLines :
    LET parts == Split(Strip(l), Tab) IN
    /\ ReadLine(l)
    /\ ~IsBlankOrComment(Strip(l))
    /\ ~IsHeader(Strip(l))
    /\ FieldCountOk(parts)
    /\ PositionRaises(parts[3])
    /\ outcome' = "raised"
    /\ pc' = "crashed"
    /\ err' = [type |-> "ValueError", line |-> 36, in |-> "parse_genome_file"]
    /\ CountersUnchanged /\ ReportUnchanged

EndOfFile ==
  /\ pc = "parse"
  /\ pc' = "summary"
  /\ UNCHANGED <<nread, line, outcome, err>>
  /\ CountersUnchanged /\ ReportUnchanged

-----------------------------------------------------------------------------
(* generate_summary *)

\* The tuple appended to sorted_chromosomes for one chromosome label.
ChromKey(chrom) ==
  IF IsDigit(chrom) THEN <<IntOf(chrom), chrom>>
  ELSE <<(IF chrom = <<"X">> THEN 100 ELSE IF chrom = <<"Y">> THEN 101 ELSE 102), chrom>>

\* int(chrom) raises for a label that isdigit() accepts and int() does not.
ChromKeyRaises(chrom) == IsDigit(chrom) /\ IntRaises(chrom)

\* a < b for (int, str) tuples
KeyLess(a, b) == a[1] < b[1] \/ (a[1] = b[1] /\ StrLess(a[2], b[2]))

RECURSIVE InsertSorted(_, _)
InsertSorted(x, s) ==
  IF s = <<>> THEN <<x>>
  ELSE IF KeyLess(x, Head(s)) THEN <<x>> \o s
  ELSE <<Head(s)>> \o InsertSorted(x, Tail(s))

\* list.sort() (stable: an element goes after the elements it is not less than)
RECURSIVE SortKeys(_)
SortKeys(s) ==
  IF s = <<>> THEN <<>>
  ELSE InsertSorted(s[Len(s)], SortKeys(SubSeq(s, 1, Len(s) - 1)))

SortedChromosomes(counts) ==
  LET labels == Keys(counts)
      sorted == SortKeys([i \in 1..Len(labels) |-> ChromKey(labels[i])])
  IN  [i \in 1..Len(sorted) |-> sorted[i][2]]

\* The homozygous total of the genotype loop.
RECURSIVE HomozygousTotal(_)
HomozygousTotal(counts) ==
  IF counts = <<>> THEN 0
  ELSE LET genotype == counts[1][1]
           count == counts[1][2]
       IN  (IF genotype # NoCall /\ Len(genotype) = 2 /\ genotype[1] = genotype[2]
            THEN count ELSE 0) + HomozygousTotal(Tail(counts))

\* The heterozygous total of the genotype loop.
RECURSIVE HeterozygousTotal(_)
HeterozygousTotal(counts) ==
  IF counts = <<>> THEN 0
  ELSE LET genotype == counts[1][1]
           count == counts[1][2]
       IN  (IF genotype # NoCall /\ Len(genotype) = 2 /\ genotype[1] # genotype[2]
            THEN count ELSE 0) + HeterozygousTotal(Tail(counts))

Raise(type, at, in) ==
  /\ pc' = "crashed"
  /\ err' = [type |-> type, line |-> at, in |-> in]

GenerateSummary ==
  /\ pc = "summary"
  /\ UNCHANGED <<nread, line, outcome, out>>
  /\ CountersUnchanged
  /\ IF total_snps = 0
     THEN \* 100*(total_snps - no_calls)/total_snps
          /\ Raise("ZeroDivisionError", 55, "generate_summary")
          /\ UNCHANGED <<sorted_chromosomes, homozygous, heterozygous>>
     ELSE IF \E i \in 1..Len(chromosome_counts) : ChromKeyRaises(chromosome_counts[i][1])
     THEN /\ Raise("ValueError", 65, "generate_summary")
          /\ UNCHANGED <<sorted_chromosomes, homozygous, heterozygous>>
     ELSE /\ sorted_chromosomes' = SortedChromosomes(chromosome_counts)
          /\ homozygous' = HomozygousTotal(genotype_counts)
          /\ heterozygous' = HeterozygousTotal(genotype_counts)
          /\ IF homozygous' + heterozygous' = 0
             THEN \* 100*homozygous/(homozygous+heterozygous)
                  Raise("ZeroDivisionError", 92, "generate_summary")
             ELSE pc' = "analyze" /\ UNCHANGED err

-----------------------------------------------------------------------------
(* analyze_specific_snps *)

interesting_snps ==
  << <<S_rs1815739, "ACTN3 gene (muscle performance)">>,
     <<S_rs1800497, "DRD2 gene (dopamine receptor)">>,
     <<S_rs4680, "COMT gene (dopamine metabolism)">>,
     <<S_rs1799971, "OPRM1 gene (opioid receptor)">>,
     <<S_rs9939609, "FTO gene (obesity risk)">>,
     <<S_rs7903146, "TCF7L2 gene (diabetes risk)">>,
     <<S_rs429358, "APOE gene variant (Alzheimer's risk)">>,
     <<S_rs7412, "APOE gene variant (Alzheimer's risk)">> >>

genotype_interpretations ==
  << <<S_rs1815739,
       << <<CC, "RR genotype - Enhanced power/sprint performance, fast-twitch muscle fibers">>,
          <<CT, "RX genotype - Mixed muscle fiber type, intermediate performance">>,
          <<TT, "XX genotype - Enhanced endurance, higher injury risk, slower sprint performance">> >> >>,
     <<S_rs1800497,
       << <<GG, "Normal dopamine receptor (DRD2) density">>,
          <<AG, "Slightly reduced dopamine receptor density">>,
          <<AA, "Reduced dopamine receptor density, may affect reward processing">> >> >>,
     <<S_rs4680,
       << <<GG, "Val/Val - High COMT activity, faster dopamine breakdown (\"warrior\" variant)">>,
          <<AG, "Val/Met - Intermediate COMT activity">>,
          <<AA, "Met/Met - Low COMT activity (~75% reduced), slower dopamine breakdown, higher prefrontal dopamine (\"worrier\" variant)">> >> >>,
     <<S_rs1799971,
       << <<AA, "Normal opioid receptor (OPRM1) function">>,
          <<AG, "Altered opioid receptor function, may affect pain sensitivity">>,
          <<GG, "Significantly altered opioid receptor function, higher pain medication requirements">> >> >>,
     <<S_rs9939609,
       << <<TT, "Lower obesity risk, protective variant">>,
          <<AT, "Intermediate obesity risk">>,
          <<AA, "Higher obesity risk, increased tendency for high sugar/fat intake">> >> >>,
     <<S_rs7903146,
       << <<CC, "Lower type 2 diabetes risk">>,
          <<CT, "Moderate type 2 diabetes risk (~1.4x)">>,
          <<TT, "Higher type 2 diabetes risk (~2x)">> >> >> >>

ApoeMarkers == {S_rs429358, S_rs7412}

\* One printed line of the interpretation section.
OutLine(tag, a, b, text) == [tag |-> tag, a |-> a, b |-> b, text |-> text]

\* found_snps after the loop over self.snps
RECURSIVE FoundSnps(_)
FoundSnps(records) ==
  IF records = <<>> THEN <<>>
  ELSE LET before == FoundSnps(SubSeq(records, 1, Len(records) - 1))
           snp == records[Len(records)]
       IN  IF Has(interesting_snps, snp.rsid) THEN Put(before, snp.rsid, snp) ELSE before

\* apoe_snps after the loop over self.snps
RECURSIVE ApoeSnps(_)
ApoeSnps(records) ==
  IF records = <<>> THEN <<>>
  ELSE LET before == ApoeSnps(SubSeq(records, 1, Len(records) - 1))
           snp == records[Len(records)]
       IN  IF Has(interesting_snps, snp.rsid) /\ snp.rsid \in ApoeMarkers
           THEN Put(before, snp.rsid, snp.genotype) ELSE before

\* The lines printed for one found marker that is not an APOE marker; the
\* "," format raises ValueError on a str position, after the first line.
MarkerLines(rsid, snp) ==
  LET first == <<OutLine("snp", rsid, <<>>, Get(interesting_snps, rsid))>>
      interpreted ==
        Has(genotype_interpretations, rsid)
        /\ Has(Get(genotype_interpretations, rsid), snp.genotype)
  IN  IF ~snp.position.isInt THEN [lines |-> first, raised |-> TRUE]
      ELSE [lines |-> first
                      \o <<OutLine("location", snp.chromosome, FormatComma(snp.position.int), "")>>
                      \o <<OutLine("genotype", snp.genotype, <<>>, "")>>
                      \o (IF interpreted
                          THEN <<OutLine("interpretation", <<>>, <<>>,
                                         Get(Get(genotype_interpretations, rsid), snp.genotype))>>
                          ELSE <<>>),
            raised |-> FALSE]

\* The loop over found_snps.items(), stopped by the first exception.
RECURSIVE FoundLines(_)
FoundLines(found) ==
  IF found = <<>> THEN [lines |-> <<>>, raised |-> FALSE]
  ELSE LET rsid == found[1][1]
           snp == found[1][2]
       IN  IF rsid \in ApoeMarkers THEN FoundLines(Tail(found))
           ELSE LET this == MarkerLines(rsid, snp)
                IN  IF this.raised THEN this
                    ELSE LET rest == FoundLines(Tail(found))
                         IN  [lines |-> this.lines \o rest.lines, raised |-> rest.raised]

\* The if/elif chain on (rs429358_gt, rs7412_gt); "e" is written for the
\* Greek letter epsilon of the printed text.
ApoeType(rs429358_gt, rs7412_gt) ==
  IF rs429358_gt = TT /\ rs7412_gt = TT
    THEN "APOE type: e2/e2 - Lower Alzheimer's risk (protective)"
  ELSE IF rs429358_gt = TT /\ rs7412_gt = CT
    THEN "APOE type: e2/e3 - Lower than average Alzheimer's risk"
  ELSE IF rs429358_gt = TT /\ rs7412_gt = CC
    THEN "APOE type: e3/e3 - Average Alzheimer's risk (most common)"
  ELSE IF rs429358_gt = CT /\ rs7412_gt = CC
    THEN "APOE type: e3/e4 - Moderately increased Alzheimer's risk (~3x)"
  ELSE IF rs429358_gt = CC /\ rs7412_gt = CC
    THEN "APOE type: e4/e4 - Significantly increased Alzheimer's risk (~12-15x)"
  ELSE IF rs429358_gt = CT /\ rs7412_gt = CT
    THEN "APOE type: e2/e4 - Variable Alzheimer's risk"
  ELSE "APOE type: Unable to determine from these genotypes"

\* The lines printed by the APOE section.
ApoeLinesOut(apoe_snps) ==
  IF Has(apoe_snps, S_rs429358) /\ Has(apoe_snps, S_rs7412)
  THEN LET rs429358_gt == Get(apoe_snps, S_rs429358)
           rs7412_gt == Get(apoe_snps, S_rs7412)
       IN  << OutLine("apoe_status", <<>>, <<>>, "APOE Status (combined rs429358 and rs7412):"),
              OutLine("apoe_genotypes", rs429358_gt, rs7412_gt, ""),
              OutLine("apoe_type", <<>>, <<>>, ApoeType(rs429358_gt, rs7412_gt)) >>
  ELSE IF Has(apoe_snps, S_rs429358) \/ Has(apoe_snps, S_rs7412)
  THEN << OutLine("apoe_incomplete", <<>>, <<>>,
                  "APOE Status: Incomplete (need both rs429358 and rs7412 to determine)") >>
  ELSE <<>>

\* Everything analyze_specific_snps prints after "Searching for notable SNPs".
Analysis(records) ==
  LET found_snps == FoundSnps(records)
      apoe_snps == ApoeSnps(records)
      markers == FoundLines(found_snps)
  IN  IF found_snps = <<>>
      THEN [lines |-> <<OutLine("none_found", <<>>, <<>>,
                                "None of the sample notable SNPs were found in this dataset.")>>,
            raised |-> FALSE]
      ELSE IF markers.raised THEN markers
      ELSE [lines |-> markers.lines \o ApoeLinesOut(apoe_snps), raised |-> FALSE]

AnalyzeSpecificSnps ==
  /\ pc = "analyze"
  /\ UNCHANGED <<nread, line, outcome, sorted_chromosomes, homozygous, heterozygous>>
  /\ CountersUnchanged
  /\ out' = Analysis(snps).lines
  /\ IF Analysis(snps).raised
     THEN Raise("ValueError", 169, "analyze_specific_snps")
     ELSE pc' = "done" /\ UNCHANGED err

-----------------------------------------------------------------------------
(* main: parse_genome_file, generate_summary, analyze_specific_snps *)

Next ==
  \/ SkipBlankOrComment
  \/ SkipHeader
  \/ DiscardLine
  \/ AppendRecord
  \/ ParseRaises
  \/ EndOfFile
  \/ GenerateSummary
  \/ AnalyzeSpecificSnps

Spec == Init /\ [][Next]_vars

-----------------------------------------------------------------------------
(* Properties *)

\* generate_summary was called (main calls it once parsing has returned).
SummaryRan ==
  \/ pc \in {"analyze", "done"}
  \/ pc = "crashed" /\ err.in \in {"generate_summary", "analyze_specific_snps"}

\* generate_summary got as far as the genotype classification loop.
ClassificationRan == SummaryRan /\ ~(err.in = "generate_summary" /\ err.line < 81)

\* analyze_specific_snps was called.
AnalysisRan == pc = "done" \/ (pc = "crashed" /\ err.in = "analyze_specific_snps")

Present(rsid) == \E i \in 1..Len(snps) : snps[i].rsid = rsid

\* The genotype of the last record of a marker that is present.
GenotypeOf(rsid) ==
  snps[CHOOSE i \in 1..Len(snps) :
         snps[i].rsid = rsid /\ \A j \in (i + 1)..Len(snps) : snps[j].rsid # rsid].genotype

Emitted(tag) == {i \in 1..Len(out) : out[i].tag = tag}

\* C1: after any prefix of any sequence of input lines, total_snps equals the
\* sum of chromosome_counts, the sum of genotype_counts and the length of snps.
C1_CountsAgree ==
  /\ total_snps = SumValues(chromosome_counts)
  /\ total_snps = SumValues(genotype_counts)
  /\ total_snps = Len(snps)

C1_Witness ==
  /\ total_snps >= 2
  /\ \E i \in 1..Len(chromosome_counts) : chromosome_counts[i][2] >= 2
  /\ Len(genotype_counts) >= 2
  /\ nread > total_snps

\* C2: no_calls is at most total_snps and is the number of retained records
\* whose genotype is "--", which is genotype_counts["--"].
C2_NoCallsCounted ==
  /\ no_calls <= total_snps
  /\ no_calls = Cardinality({i \in 1..Len(snps) : snps[i].genotype = <<"-", "-">>})
  /\ no_calls = (IF Has(genotype_counts, <<"-", "-">>)
                 THEN Get(genotype_counts, <<"-", "-">>) ELSE 0)

C2_Witness == no_calls >= 1 /\ total_snps > no_calls

\* C3: the summary report, run on an input that yielded zero records,
\* completes without raising.
C3_EmptyReportCompletes == (SummaryRan /\ total_snps = 0) => err.type = "none"

\* C4: reading a line that is not skipped and whose split on the tab does not
\* give exactly 4 fields changes no record and no counter and raises nothing.
C4_MalformedLineNoEffect ==
  [][ ( /\ pc = "parse"
        /\ nread' = nread + 1
        /\ ~IsBlankOrComment(Strip(line'))
        /\ ~IsHeader(Strip(line'))
        /\ Len(Split(Strip(line'), Tab)) # 4 )
      => ( /\ snps' = snps
           /\ chromosome_counts' = chromosome_counts
           /\ genotype_counts' = genotype_counts
           /\ total_snps' = total_snps
           /\ no_calls' = no_calls
           /\ err' = NoError
           /\ pc' = "parse" ) ]_vars

C4_Witness ==
  /\ outcome = "discarded"
  /\ line \in MalformedLines
  /\ total_snps >= 1
  /\ pc = "parse"

\* C5: a non-blank, non-comment line is skipped as a header exactly when its
\* first tab-separated field is "rsid"; a 4-field line whose marker identifier
\* only begins with "rsid" becomes a record.
C5_HeaderIffFirstFieldRsid ==
  outcome \notin {"none", "skipped"} =>
    LET parts == Split(Strip(line), Tab) IN
    /\ (outcome = "header") <=> (parts[1] = S_rsid)
    /\ (Len(parts) = 4 /\ parts[1] = S_rsid123) => outcome = "record"

\* The table of C6, from the claim.
ClaimedApoeType(g1, g2) ==
  CASE g1 = TT /\ g2 = TT -> "e2/e2"
    [] g1 = TT /\ g2 = CT -> "e2/e3"
    [] g1 = TT /\ g2 = CC -> "e3/e3"
    [] g1 = CT /\ g2 = CC -> "e3/e4"
    [] g1 = CC /\ g2 = CC -> "e4/e4"
    [] g1 = CT /\ g2 = CT -> "e2/e4"
    [] OTHER -> "undetermined"

\* The result a printed APOE type line names.
NamedApoeType(text) ==
  CASE text = "APOE type: e2/e2 - Lower Alzheimer's risk (protective)" -> "e2/e2"
    [] text = "APOE type: e2/e3 - Lower than average Alzheimer's risk" -> "e2/e3"
    [] text = "APOE type: e3/e3 - Average Alzheimer's risk (most common)" -> "e3/e3"
    [] text = "APOE type: e3/e4 - Moderately increased Alzheimer's risk (~3x)" -> "e3/e4"
    [] text = "APOE type: e4/e4 - Significantly increased Alzheimer's risk (~12-15x)" -> "e4/e4"
    [] text = "APOE type: e2/e4 - Variable Alzheimer's risk" -> "e2/e4"
    [] text = "APOE type: Unable to determine from these genotypes" -> "undetermined"
    [] OTHER -> "other"

\* C6: with both rs429358 and rs7412 present, exactly one APOE type line is
\* emitted and it names the result the claimed table gives for the pair.
C6_ApoeTable ==
  (AnalysisRan /\ Present(S_rs429358) /\ Present(S_rs7412)) =>
    /\ Cardinality(Emitted("apoe_type")) = 1
    /\ \A i \in Emitted("apoe_type") :
         NamedApoeType(out[i].text)
           = ClaimedApoeType(GenotypeOf(S_rs429358), GenotypeOf(S_rs7412))

\* C7: an APOE type is emitted only when both markers are present; with
\* exactly one present the status is reported incomplete and no type is
\* emitted; with neither present nothing about APOE is emitted.
C7_ApoePresence ==
  AnalysisRan =>
    LET both == Present(S_rs429358) /\ Present(S_rs7412)
        one == Present(S_rs429358) # Present(S_rs7412)
        neither == ~Present(S_rs429358) /\ ~Present(S_rs7412)
    IN  /\ Emitted("apoe_type") # {} => both
        /\ one => (Emitted("apoe_incomplete") # {} /\ Emitted("apoe_type") = {})
        /\ neither => (Emitted("apoe_status") \cup Emitted("apoe_genotypes")
                       \cup Emitted("apoe_type") \cup Emitted("apoe_incomplete")) = {}

AsciiNumeric(label) == label # <<>> /\ \A i \in 1..Len(label) : label[i] \in AsciiDigits

\* The place of a label in the ordering of C8: numeric labels by value, then
\* "X", then "Y", then every other label.
ClaimedBefore(a, b) ==
  \/ AsciiNumeric(a) /\ AsciiNumeric(b) /\ IntOf(a) < IntOf(b)
  \/ AsciiNumeric(a) /\ ~AsciiNumeric(b)
  \/ a = <<"X">> /\ ~AsciiNumeric(b) /\ b # <<"X">>
  \/ a = <<"Y">> /\ ~AsciiNumeric(b) /\ b \notin {<<"X">>, <<"Y">>}

\* C8: the display order lists every label seen once, numeric labels by
\* value, then "X", then "Y", then every other label.
C8_ChromosomeOrder ==
  ClassificationRan =>
    /\ Len(sorted_chromosomes) = Len(chromosome_counts)
    /\ \A i \in 1..Len(chromosome_counts) :
         \E j \in 1..Len(sorted_chromosomes) : sorted_chromosomes[j] = chromosome_counts[i][1]
    /\ \A i, j \in 1..Len(sorted_chromosomes) :
         i < j => ~ClaimedBefore(sorted_chromosomes[j], sorted_chromosomes[i])

\* The position as a report shows it.
ShownPosition(position) ==
  IF position.isInt THEN FormatComma(position.int) ELSE position.str

\* C9: for every notable marker other than the APOE markers that is present,
\* the report holds its id and label, its chromosome and position, its
\* genotype, and an interpretation line exactly when the genotype is a key of
\* the marker's interpretation table; for integer and for string positions.
C9_NotableMarkerReport ==
  AnalysisRan =>
    \A k \in 1..Len(FoundSnps(snps)) :
      LET rsid == FoundSnps(snps)[k][1]
          snp == FoundSnps(snps)[k][2]
          interpreted == Has(Get(genotype_interpretations, rsid), snp.genotype)
      IN  rsid \notin ApoeMarkers =>
            \E i \in 1..Len(out) :
              /\ out[i].tag = "snp" /\ out[i].a = rsid
              /\ out[i].text = Get(interesting_snps, rsid)
              /\ i + 2 <= Len(out)
              /\ out[i + 1].tag = "location"
              /\ out[i + 1].a = snp.chromosome
              /\ out[i + 1].b = ShownPosition(snp.position)
              /\ out[i + 2].tag = "genotype" /\ out[i + 2].a = snp.genotype
              /\ interpreted <=>
                   ( /\ i + 3 <= Len(out)
                     /\ out[i + 3].tag = "interpretation"
                     /\ out[i + 3].text
                          = Get(Get(genotype_interpretations, rsid), snp.genotype) )

\* Records that count as homozygous or heterozygous: not a no-call, length 2.
Classified ==
  {i \in 1..Len(snps) : snps[i].genotype # <<"-", "-">> /\ Len(snps[i].genotype) = 2}

\* C10: with at least one record parsed, the genotype classification
\* completes without error and its two totals cover exactly the records
\* whose genotype is not a no-call and has length 2.
C10_ClassificationCompletes ==
  (ClassificationRan /\ total_snps > 0) =>
    /\ ~(err.in = "generate_summary" /\ err.line >= 81)
    /\ homozygous + heterozygous = Cardinality(Classified)

====
